---- MODULE Spec2Model ----
(***************************************************************************)
(* The binary codec of a ledger transaction                                *)
(* (ledger/block/src/transaction/bytes.rs): Transaction::read_le and       *)
(* Transaction::write_le, each running through a LimitedReader or          *)
(* LimitedWriter bounded by MAX_TRANSACTION_SIZE.                          *)
(*                                                                         *)
(* A thread builds a transaction with one of the three constructors (or    *)
(* takes raw bytes), encodes it, possibly alters one byte of the encoding, *)
(* decodes the bytes and encodes the decoded transaction again.  Every     *)
(* read_le and write_le call is a frame that advances one field at a time, *)
(* in the order of the source.                                             *)
(*                                                                         *)
(* The collaborators that live outside bytes.rs (the bounded streams, the  *)
(* codecs of the identifier, owner, deployment, execution and fee, the     *)
(* constructors and id()) are modelled after their description: a byte is  *)
(* a number in 0..MaxByte, the owner, the deployment and the fee take one  *)
(* byte each, the identifier takes one byte and is a field element below   *)
(* IdModulus, and an execution is a count byte followed by that many       *)
(* transition bytes.                                                       *)
(***************************************************************************)
EXTENDS Integers, Sequences, FiniteSets, TLC

\* ------------------------------------------------------------------ bounds

\* The largest byte value; bytes are 0..MaxByte.
MaxByte == 3

\* N::MAX_TRANSACTION_SIZE, scaled down to the model's field widths.
MAX_TRANSACTION_SIZE == 7

\* The longest raw byte string handed to read_le as it is.
MaxRawLen == 3

\* ------------------------------------------------------------ data model

Byte == 0..MaxByte

\* Option::None, and the value of a field a variant does not carry.
None == -1

\* The identifier is a field element: only the encodings below the modulus
\* are canonical.
IdModulus == 3

Threads == {1, 2}

\* The transitions of an execution: a sequence of bytes, at most MaxByte of
\* them (the count takes one byte).
RECURSIVE SeqsUpTo(_, _)
SeqsUpTo(S, n) ==
    IF n = 0 THEN {<<>>}
    ELSE LET shorter == SeqsUpTo(S, n - 1)
         IN  shorter \cup {Append(s, x) : s \in {t \in shorter : Len(t) = n - 1}, x \in S}

Transitions == 0..1
Executions == SeqsUpTo(Transitions, MaxByte)

\* enum Transaction { Deploy(id, owner, deployment, fee),
\*                    Execute(id, execution, Option<fee>), Fee(id, fee) }
Deploy(id, owner, deployment, fee) ==
    [variant |-> 0, id |-> id, owner |-> owner, deployment |-> deployment,
     execution |-> <<>>, fee |-> fee]

Execute(id, execution, fee) ==
    [variant |-> 1, id |-> id, owner |-> None, deployment |-> None,
     execution |-> execution, fee |-> fee]

Fee(id, fee) ==
    [variant |-> 2, id |-> id, owner |-> None, deployment |-> None,
     execution |-> <<>>, fee |-> fee]

\* No transaction: a constructor's Err, or a frame that holds none yet.
NoTx ==
    [variant |-> None, id |-> None, owner |-> None, deployment |-> None,
     execution |-> <<>>, fee |-> None]

\* ------------------------------------------------- the sub-object codecs

\* The digest behind a transaction identifier: a fold of the bytes modulo the
\* field's modulus.
RECURSIVE Digest(_)
Digest(s) ==
    IF s = <<>> THEN 0
    ELSE (2 * Digest(SubSeq(s, 1, Len(s) - 1)) + s[Len(s)] + 1) % IdModulus

\* Execution::write_le: the number of transitions, then the transitions.
ExecutionBytes(execution) == <<Len(execution)>> \o execution

\* ToBytes of an Option<Fee> as the identifier's preimage sees it.
FeePreimage(fee) == IF fee = None THEN <<0>> ELSE <<1, fee>>

\* Transaction::id(): recomputed from the variant and the fields.
DeploymentID(owner, deployment, fee) == Digest(<<0, owner, deployment, fee>>)
ExecutionID(execution, fee) == Digest(<<1>> \o ExecutionBytes(execution) \o FeePreimage(fee))
FeeID(fee) == Digest(<<2, fee>>)

\* Whether the owner's signature verifies for the deployment.
OwnerVerifies(owner, deployment) == owner = (deployment + 1) % (MaxByte + 1)

\* Transaction::from_deployment: fails (NoTx) when the owner does not verify.
from_deployment(owner, deployment, fee) ==
    IF OwnerVerifies(owner, deployment)
    THEN Deploy(DeploymentID(owner, deployment, fee), owner, deployment, fee)
    ELSE NoTx

\* Transaction::from_execution, with an optional fee.
from_execution(execution, fee) == Execute(ExecutionID(execution, fee), execution, fee)

\* Transaction::from_fee.
from_fee(fee) == Fee(FeeID(fee), fee)

\* TransactionID::read_le of one byte: Err for a non-canonical field element.
IdCanonical(b) == b < IdModulus

\* ---------------------------------------------------------- LimitedReader

\* A limit that is off by one.
ReaderLimitWrong == MAX_TRANSACTION_SIZE + 1
\* The limit read_le hands to LimitedReader::new.
ReaderLimit == MAX_TRANSACTION_SIZE

\* A limit that is off by one.
WriterLimitWrong == MAX_TRANSACTION_SIZE + 1
\* The limit write_le hands to LimitedWriter::new.
WriterLimit == MAX_TRANSACTION_SIZE

\* The outcome of reading k bytes through the bounded reader of frame r:
\* "Ok", "SizeLimit" when the read would cross the limit, "Eof" when the
\* underlying stream ends first.
TakeResult(r, k) ==
    LET avail == Len(r.input) - r.pos
    IN  IF k <= r.remaining /\ k <= avail THEN "Ok"
        ELSE IF r.remaining <= avail THEN "SizeLimit"
        ELSE "Eof"

\* The k bytes a successful read returns, and the frame after it.
TakeBytes(r, k) == SubSeq(r.input, r.pos + 1, r.pos + k)
Advance(r, k) == [r EXCEPT !.pos = r.pos + k, !.remaining = r.remaining - k]

\* A read that failed with error e ends the call.
Fail(r, e) == [r EXCEPT !.pc = "done", !.result = e]

\* LimitedReader::new(reader, limit) over the bytes `input`: a frame of
\* read_le before its first read.
NewReader(input, limit) ==
    [pc |-> "version", input |-> input, pos |-> 0, remaining |-> limit,
     variant |-> None, id |-> None, owner |-> None, deployment |-> None,
     execution |-> <<>>, fee |-> None, transaction |-> NoTx, result |-> "Pending"]

\* A frame no call is using.
IdleReader == [NewReader(<<>>, ReaderLimit) EXCEPT !.pc = "idle"]

\* ---------------------------------------------------------- LimitedWriter

\* LimitedWriter::new(writer, limit) for write_le of `self`.
NewWriter(self, limit) ==
    [pc |-> "version", self |-> self, buf |-> <<>>, remaining |-> limit,
     result |-> "Pending"]

IdleWriter == [NewWriter(NoTx, WriterLimit) EXCEPT !.pc = "idle"]

\* bytes.write_le(&mut writer)?, then on to pc `next`: a write that would cross
\* the limit fails the call with the size-limit error, and only the bytes under
\* the ceiling reach the buffer.
Put(w, bytes, next) ==
    IF Len(bytes) <= w.remaining
    THEN [w EXCEPT !.buf = w.buf \o bytes, !.remaining = w.remaining - Len(bytes),
                   !.pc = next, !.result = IF next = "done" THEN "Ok" ELSE "Pending"]
    ELSE [w EXCEPT !.buf = w.buf \o SubSeq(bytes, 1, w.remaining), !.remaining = 0,
                   !.pc = "done", !.result = "SizeLimit"]

\* --------------------------------------------------- Transaction::read_le

\* A version check that lets version 0 through.
VersionValidWrong(version) == version <= 1

\* if version != 1 { return Err("Invalid transaction version") }
VersionValid(version) == version = 1

\* A match whose catch-all arm starts at 4.
VariantValidWrong(variant) == variant <= 3

\* match variant { 0 => .., 1 => .., 2 => .., 3.. => Err("Invalid transaction variant") }
VariantValid(variant) == variant \in {0, 1, 2}

\* The field read after the identifier, by variant.
FieldAfterID(variant) ==
    CASE variant = 0 -> "owner"
      [] variant = 1 -> "execution"
      [] OTHER -> "fee"

\* A match with no catch-all arm: every other value reads as None.
FeeVariantValidWrong(fee_variant) == TRUE

\* match fee_variant { 0 => None, 1 => Some(Fee::read_le), _ => Err("Invalid fee variant") }
FeeVariantValid(fee_variant) == fee_variant \in {0, 1}

\* A match that reads a fee whatever the fee variant.
FeeFollowsWrong(fee_variant) == fee_variant >= 0

\* 1u8 => Some(Fee::read_le(&mut reader)?)
FeeFollows(fee_variant) == fee_variant = 1

\* A read_le without the identifier check.
IdMatchesWrong(transaction, id) == TRUE

\* match transaction.id() == id { true => Ok(transaction), false => Err("Transaction ID mismatch") }
IdMatches(transaction, id) == transaction.id = id

\* let version = u8::read_le(&mut reader)?; and the version check.
ReadVersionStep(r) ==
    IF TakeResult(r, 1) # "Ok" THEN Fail(r, TakeResult(r, 1))
    ELSE LET version == TakeBytes(r, 1)[1]
         IN  IF VersionValid(version)
             THEN [Advance(r, 1) EXCEPT !.pc = "variant"]
             ELSE Fail(Advance(r, 1), "InvalidVersion")

\* let variant = u8::read_le(&mut reader)?; and the match on it.
ReadVariantStep(r) ==
    IF TakeResult(r, 1) # "Ok" THEN Fail(r, TakeResult(r, 1))
    ELSE LET variant == TakeBytes(r, 1)[1]
         IN  IF VariantValid(variant)
             THEN [Advance(r, 1) EXCEPT !.pc = "id", !.variant = variant]
             ELSE Fail(Advance(r, 1), "InvalidVariant")

\* let id = N::TransactionID::read_le(&mut reader)?;
ReadIDStep(r) ==
    IF TakeResult(r, 1) # "Ok" THEN Fail(r, TakeResult(r, 1))
    ELSE LET id == TakeBytes(r, 1)[1]
         IN  IF IdCanonical(id)
             THEN [Advance(r, 1) EXCEPT !.pc = FieldAfterID(r.variant), !.id = id]
             ELSE Fail(Advance(r, 1), "InvalidIdentifier")

\* let owner = ProgramOwner::read_le(&mut reader)?;
ReadOwnerStep(r) ==
    IF TakeResult(r, 1) # "Ok" THEN Fail(r, TakeResult(r, 1))
    ELSE [Advance(r, 1) EXCEPT !.pc = "deployment", !.owner = TakeBytes(r, 1)[1]]

\* let deployment = Deployment::read_le(&mut reader)?;
ReadDeploymentStep(r) ==
    IF TakeResult(r, 1) # "Ok" THEN Fail(r, TakeResult(r, 1))
    ELSE [Advance(r, 1) EXCEPT !.pc = "fee",
                               !.deployment = TakeBytes(r, 1)[1]]

\* let execution = Execution::read_le(&mut reader)?; the count, then the
\* transitions.
ReadExecutionStep(r) ==
    IF TakeResult(r, 1) # "Ok" THEN Fail(r, TakeResult(r, 1))
    ELSE LET n  == TakeBytes(r, 1)[1]
             r1 == Advance(r, 1)
         IN  IF TakeResult(r1, n) # "Ok" THEN Fail(r1, TakeResult(r1, n))
             ELSE [Advance(r1, n) EXCEPT !.pc = "fee_variant",
                                         !.execution = TakeBytes(r1, n)]

\* let fee_variant = u8::read_le(&mut reader)?; and the match on it.
ReadFeeVariantStep(r) ==
    IF TakeResult(r, 1) # "Ok" THEN Fail(r, TakeResult(r, 1))
    ELSE LET fee_variant == TakeBytes(r, 1)[1]
         IN  IF ~FeeVariantValid(fee_variant)
             THEN Fail(Advance(r, 1), "InvalidFeeVariant")
             ELSE IF FeeFollows(fee_variant)
             THEN [Advance(r, 1) EXCEPT !.pc = "fee"]
             ELSE [Advance(r, 1) EXCEPT !.pc = "construct", !.fee = None]

\* let fee = Fee::read_le(&mut reader)?; the last field of every variant.
ReadFeeStep(r) ==
    IF TakeResult(r, 1) # "Ok" THEN Fail(r, TakeResult(r, 1))
    ELSE [Advance(r, 1) EXCEPT !.pc = "construct", !.fee = TakeBytes(r, 1)[1]]

\* Self::from_deployment / from_execution / from_fee of the fields read,
\* .map_err(|e| error(e.to_string()))?
Constructed(r) ==
    CASE r.variant = 0 -> from_deployment(r.owner, r.deployment, r.fee)
      [] r.variant = 1 -> from_execution(r.execution, r.fee)
      [] OTHER -> from_fee(r.fee)

ConstructStep(r) ==
    IF Constructed(r) = NoTx THEN Fail(r, "Construction")
    ELSE [r EXCEPT !.pc = "check", !.transaction = Constructed(r)]

\* Ensure the transaction ID matches.
CheckIDStep(r) ==
    IF IdMatches(r.transaction, r.id)
    THEN [r EXCEPT !.pc = "done", !.result = "Ok"]
    ELSE [r EXCEPT !.pc = "done", !.result = "IdMismatch"]

\* -------------------------------------------------- Transaction::write_le

\* The tags of Deploy and Fee swapped.
VariantTagWrong(self) == 2 - self.variant

\* 0u8 / 1u8 / 2u8 .write_le(&mut writer)?: the tag of the variant.
VariantTag(self) == self.variant

\* The two fee-presence bytes swapped.
FeeVariantTagWrong(fee) == IF fee = None THEN 1 ELSE 0

\* None => 0u8, Some(fee) => 1u8 then the fee.
FeeVariantTag(fee) == IF fee = None THEN 0 ELSE 1

\* id.write_le(&mut writer)?: the identifier stored on the value.
StoredID(self) == self.id

\* 1u8.write_le(&mut writer)?;
WriteVersionStep(w) == Put(w, <<1>>, "variant")

WriteVariantStep(w) == Put(w, <<VariantTag(w.self)>>, "id")

\* The first field written after the identifier, by the arm of `match self`.
WriteAfterID(self) ==
    CASE self.variant = 0 -> "owner"
      [] self.variant = 1 -> "execution"
      [] OTHER -> "fee"

WriteIDStep(w) == Put(w, <<StoredID(w.self)>>, WriteAfterID(w.self))

\* owner.write_le(&mut writer)?;
WriteOwnerStep(w) == Put(w, <<w.self.owner>>, "deployment")

\* deployment.write_le(&mut writer)?;
WriteDeploymentStep(w) == Put(w, <<w.self.deployment>>, "fee")

\* execution.write_le(&mut writer)?;
WriteExecutionStep(w) == Put(w, ExecutionBytes(w.self.execution), "fee_variant")

\* match fee { None => 0u8.write_le(..), Some(fee) => { 1u8.write_le(..)?; .. } }
WriteFeeVariantStep(w) ==
    Put(w, <<FeeVariantTag(w.self.fee)>>, IF w.self.fee = None THEN "done" ELSE "fee")

\* fee.write_le(&mut writer): the last write of every variant.
WriteFeeStep(w) == Put(w, <<w.self.fee>>, "done")

\* One step of write_le, by the frame's position.
WriteStep(w) ==
    CASE w.pc = "version" -> WriteVersionStep(w)
      [] w.pc = "variant" -> WriteVariantStep(w)
      [] w.pc = "id" -> WriteIDStep(w)
      [] w.pc = "owner" -> WriteOwnerStep(w)
      [] w.pc = "deployment" -> WriteDeploymentStep(w)
      [] w.pc = "execution" -> WriteExecutionStep(w)
      [] w.pc = "fee_variant" -> WriteFeeVariantStep(w)
      [] w.pc = "fee" -> WriteFeeStep(w)
      [] OTHER -> w

RECURSIVE RunWrite(_)
RunWrite(w) == IF w.pc \in {"done", "idle"} THEN w ELSE RunWrite(WriteStep(w))

\* test_helpers::unchecked_write_le: the same writes straight into the Vec,
\* with no LimitedWriter around it.
NoLimit == MAX_TRANSACTION_SIZE + MaxByte + 100
unchecked_write_le(self) == RunWrite(NewWriter(self, NoLimit)).buf

\* The transactions the tests sample: a deployment, an execution with and
\* without a fee, a fee, and sample_large_execution_transaction, whose
\* execution alone is larger than MAX_TRANSACTION_SIZE allows.
LargeExecution == [i \in 1..MaxByte |-> i % 2]
Samples ==
    {from_deployment(2, 1, 1), from_execution(<<1>>, 2), from_execution(<<0, 1>>, None),
     from_fee(2), from_execution(LargeExecution, 1)}

\* ------------------------------------------------------------------ state

VARIABLES
    stage,   \* per thread: build, built, encode, wire, decode, decoded, reencode, end
    tx,      \* per thread: the transaction the thread built (NoTx for raw bytes)
    enc,     \* per thread: how the bytes came about, and the bytes
    wire,    \* per thread: the bytes handed to read_le
    wr,      \* per thread: the frame of its write_le call
    rd,      \* per thread: the frame of its read_le call
    dec,     \* per thread: what read_le returned
    reenc    \* per thread: what write_le of the decoded transaction returned

vars == <<stage, tx, enc, wire, wr, rd, dec, reenc>>

NoBytes == [result |-> "Pending", bytes |-> <<>>]
NoResult == [result |-> "Pending", transaction |-> NoTx]

Init ==
    /\ stage = [c \in Threads |-> "build"]
    /\ tx = [c \in Threads |-> NoTx]
    /\ enc = [c \in Threads |-> NoBytes]
    /\ wire = [c \in Threads |-> <<>>]
    /\ wr = [c \in Threads |-> IdleWriter]
    /\ rd = [c \in Threads |-> IdleReader]
    /\ dec = [c \in Threads |-> NoResult]
    /\ reenc = [c \in Threads |-> NoBytes]

\* ------------------------------------------------------- building inputs

\* Self::from_deployment(owner, deployment, fee) by the application.
FromDeployment(c) ==
    \E owner \in Byte, deployment \in Byte, fee \in Byte :
        /\ stage[c] = "build"
        /\ from_deployment(owner, deployment, fee) # NoTx
        /\ tx' = [tx EXCEPT ![c] = from_deployment(owner, deployment, fee)]
        /\ stage' = [stage EXCEPT ![c] = "built"]
        /\ UNCHANGED <<enc, wire, wr, rd, dec, reenc>>

\* Self::from_execution(execution, fee) by the application.
FromExecution(c) ==
    \E execution \in Executions, fee \in Byte \cup {None} :
        /\ stage[c] = "build"
        /\ tx' = [tx EXCEPT ![c] = from_execution(execution, fee)]
        /\ stage' = [stage EXCEPT ![c] = "built"]
        /\ UNCHANGED <<enc, wire, wr, rd, dec, reenc>>

\* Self::from_fee(fee) by the application.
FromFee(c) ==
    \E fee \in Byte :
        /\ stage[c] = "build"
        /\ tx' = [tx EXCEPT ![c] = from_fee(fee)]
        /\ stage' = [stage EXCEPT ![c] = "built"]
        /\ UNCHANGED <<enc, wire, wr, rd, dec, reenc>>

\* Transaction::Fee(id, fee) written out as a value: the variants are public,
\* so the identifier stored on it need not be the one from_fee computes.
FeeLiteral(c) ==
    \E id \in 0..(IdModulus - 1), fee \in Byte :
        /\ stage[c] = "build"
        /\ tx' = [tx EXCEPT ![c] = Fee(id, fee)]
        /\ stage' = [stage EXCEPT ![c] = "built"]
        /\ UNCHANGED <<enc, wire, wr, rd, dec, reenc>>

\* One of the tests' sample transactions.
Sample(c) ==
    \E t \in Samples :
        /\ stage[c] = "build"
        /\ tx' = [tx EXCEPT ![c] = t]
        /\ stage' = [stage EXCEPT ![c] = "built"]
        /\ UNCHANGED <<enc, wire, wr, rd, dec, reenc>>

\* Bytes from the network or from storage, handed to read_le as they are.
RawBytes(c) ==
    \E s \in SeqsUpTo(Byte, MaxRawLen) :
        /\ stage[c] = "build"
        /\ enc' = [enc EXCEPT ![c] = [result |-> "Raw", bytes |-> s]]
        /\ wire' = [wire EXCEPT ![c] = s]
        /\ stage' = [stage EXCEPT ![c] = "wire"]
        /\ UNCHANGED <<tx, wr, rd, dec, reenc>>

UncheckedWriteLe(c) ==
    /\ stage[c] = "built"
    /\ enc' = [enc EXCEPT ![c] = [result |-> "Unchecked", bytes |-> unchecked_write_le(tx[c])]]
    /\ wire' = [wire EXCEPT ![c] = unchecked_write_le(tx[c])]
    /\ stage' = [stage EXCEPT ![c] = "wire"]
    /\ UNCHANGED <<tx, wr, rd, dec, reenc>>

\* One byte of the bytes on the wire is replaced by another value (a flipped
\* bit, a forged field).
Tamper(c) ==
    \E p \in 1..Len(wire[c]), b \in Byte :
        /\ stage[c] = "wire"
        /\ enc[c].result # "Raw"
        /\ wire[c] = enc[c].bytes
        /\ b # wire[c][p]
        /\ wire' = [wire EXCEPT ![c][p] = b]
        /\ UNCHANGED <<stage, tx, enc, wr, rd, dec, reenc>>

\* The bytes on the wire are cut short.
Truncate(c) ==
    \E n \in 0..(Len(wire[c]) - 1) :
        /\ stage[c] = "wire"
        /\ enc[c].result # "Raw"
        /\ wire[c] = enc[c].bytes
        /\ wire' = [wire EXCEPT ![c] = SubSeq(wire[c], 1, n)]
        /\ UNCHANGED <<stage, tx, enc, wr, rd, dec, reenc>>

\* ---------------------------------------------------------------- write_le

\* The byte budget a new write_le call starts with.
WriterBudget(c) == WriterLimit

\* let mut writer = LimitedWriter::new(writer, N::MAX_TRANSACTION_SIZE);
\* on the transaction the thread built, or on the one it decoded.
WriteLeBegin(c) ==
    /\ stage[c] \in {"built", "decoded"}
    /\ stage[c] = "decoded" => dec[c].result = "Ok"
    /\ wr' = [wr EXCEPT ![c] =
                NewWriter(IF stage[c] = "built" THEN tx[c] ELSE dec[c].transaction,
                          WriterBudget(c))]
    /\ stage' = [stage EXCEPT ![c] = IF stage[c] = "built" THEN "encode" ELSE "reencode"]
    /\ UNCHANGED <<tx, enc, wire, rd, dec, reenc>>

\* 1u8.write_le(&mut writer)?;
WriteVersion(c) ==
    /\ stage[c] \in {"encode", "reencode"}
    /\ wr[c].pc = "version"
    /\ wr' = [wr EXCEPT ![c] = WriteVersionStep(wr[c])]
    /\ UNCHANGED <<stage, tx, enc, wire, rd, dec, reenc>>

\* 0u8 / 1u8 / 2u8 .write_le(&mut writer)?;
WriteVariant(c) ==
    /\ stage[c] \in {"encode", "reencode"}
    /\ wr[c].pc = "variant"
    /\ wr' = [wr EXCEPT ![c] = WriteVariantStep(wr[c])]
    /\ UNCHANGED <<stage, tx, enc, wire, rd, dec, reenc>>

\* id.write_le(&mut writer)?;
WriteID(c) ==
    /\ stage[c] \in {"encode", "reencode"}
    /\ wr[c].pc = "id"
    /\ wr' = [wr EXCEPT ![c] = WriteIDStep(wr[c])]
    /\ UNCHANGED <<stage, tx, enc, wire, rd, dec, reenc>>

\* owner.write_le(&mut writer)?;
WriteOwner(c) ==
    /\ stage[c] \in {"encode", "reencode"}
    /\ wr[c].pc = "owner"
    /\ wr' = [wr EXCEPT ![c] = WriteOwnerStep(wr[c])]
    /\ UNCHANGED <<stage, tx, enc, wire, rd, dec, reenc>>

\* deployment.write_le(&mut writer)?;
WriteDeployment(c) ==
    /\ stage[c] \in {"encode", "reencode"}
    /\ wr[c].pc = "deployment"
    /\ wr' = [wr EXCEPT ![c] = WriteDeploymentStep(wr[c])]
    /\ UNCHANGED <<stage, tx, enc, wire, rd, dec, reenc>>

\* execution.write_le(&mut writer)?;
WriteExecution(c) ==
    /\ stage[c] \in {"encode", "reencode"}
    /\ wr[c].pc = "execution"
    /\ wr' = [wr EXCEPT ![c] = WriteExecutionStep(wr[c])]
    /\ UNCHANGED <<stage, tx, enc, wire, rd, dec, reenc>>

\* match fee { None => 0u8.write_le(..), Some(fee) => 1u8.write_le(..)? .. }
WriteFeeVariant(c) ==
    /\ stage[c] \in {"encode", "reencode"}
    /\ wr[c].pc = "fee_variant"
    /\ wr' = [wr EXCEPT ![c] = WriteFeeVariantStep(wr[c])]
    /\ UNCHANGED <<stage, tx, enc, wire, rd, dec, reenc>>

\* fee.write_le(&mut writer)
WriteFee(c) ==
    /\ stage[c] \in {"encode", "reencode"}
    /\ wr[c].pc = "fee"
    /\ wr' = [wr EXCEPT ![c] = WriteFeeStep(wr[c])]
    /\ UNCHANGED <<stage, tx, enc, wire, rd, dec, reenc>>

\* write_le returns to to_bytes_le: the bytes, or the error.
EncodeReturn(c) ==
    /\ stage[c] = "encode"
    /\ wr[c].pc = "done"
    /\ enc' = [enc EXCEPT ![c] =
                 [result |-> wr[c].result,
                  bytes |-> IF wr[c].result = "Ok" THEN wr[c].buf ELSE <<>>]]
    /\ wire' = [wire EXCEPT ![c] = IF wr[c].result = "Ok" THEN wr[c].buf ELSE <<>>]
    /\ stage' = [stage EXCEPT ![c] = IF wr[c].result = "Ok" THEN "wire" ELSE "end"]
    /\ UNCHANGED <<tx, wr, rd, dec, reenc>>

ReencodeReturn(c) ==
    /\ stage[c] = "reencode"
    /\ wr[c].pc = "done"
    /\ reenc' = [reenc EXCEPT ![c] =
                   [result |-> wr[c].result,
                    bytes |-> IF wr[c].result = "Ok" THEN wr[c].buf ELSE <<>>]]
    /\ stage' = [stage EXCEPT ![c] = "end"]
    /\ UNCHANGED <<tx, enc, wire, wr, rd, dec>>

\* ----------------------------------------------------------------- read_le

\* A budget shared with the other thread's writer: what that call left.
ReaderBudgetShared(c) == wr[3 - c].remaining

\* The byte budget a new read_le call starts with.
ReaderBudget(c) == ReaderLimit

\* let mut reader = LimitedReader::new(reader, N::MAX_TRANSACTION_SIZE);
ReadLeBegin(c) ==
    /\ stage[c] = "wire"
    /\ rd' = [rd EXCEPT ![c] = NewReader(wire[c], ReaderBudget(c))]
    /\ stage' = [stage EXCEPT ![c] = "decode"]
    /\ UNCHANGED <<tx, enc, wire, wr, dec, reenc>>

\* let version = u8::read_le(&mut reader)?; if version != 1 { return Err(..) }
ReadVersion(c) ==
    /\ stage[c] = "decode"
    /\ rd[c].pc = "version"
    /\ rd' = [rd EXCEPT ![c] = ReadVersionStep(rd[c])]
    /\ UNCHANGED <<stage, tx, enc, wire, wr, dec, reenc>>

\* let variant = u8::read_le(&mut reader)?; match variant { .. }
ReadVariant(c) ==
    /\ stage[c] = "decode"
    /\ rd[c].pc = "variant"
    /\ rd' = [rd EXCEPT ![c] = ReadVariantStep(rd[c])]
    /\ UNCHANGED <<stage, tx, enc, wire, wr, dec, reenc>>

\* let id = N::TransactionID::read_le(&mut reader)?;
ReadID(c) ==
    /\ stage[c] = "decode"
    /\ rd[c].pc = "id"
    /\ rd' = [rd EXCEPT ![c] = ReadIDStep(rd[c])]
    /\ UNCHANGED <<stage, tx, enc, wire, wr, dec, reenc>>

\* let owner = ProgramOwner::read_le(&mut reader)?;
ReadOwner(c) ==
    /\ stage[c] = "decode"
    /\ rd[c].pc = "owner"
    /\ rd' = [rd EXCEPT ![c] = ReadOwnerStep(rd[c])]
    /\ UNCHANGED <<stage, tx, enc, wire, wr, dec, reenc>>

\* let deployment = Deployment::read_le(&mut reader)?;
ReadDeployment(c) ==
    /\ stage[c] = "decode"
    /\ rd[c].pc = "deployment"
    /\ rd' = [rd EXCEPT ![c] = ReadDeploymentStep(rd[c])]
    /\ UNCHANGED <<stage, tx, enc, wire, wr, dec, reenc>>

\* let execution = Execution::read_le(&mut reader)?;
ReadExecution(c) ==
    /\ stage[c] = "decode"
    /\ rd[c].pc = "execution"
    /\ rd' = [rd EXCEPT ![c] = ReadExecutionStep(rd[c])]
    /\ UNCHANGED <<stage, tx, enc, wire, wr, dec, reenc>>

\* let fee_variant = u8::read_le(&mut reader)?; match fee_variant { .. }
ReadFeeVariant(c) ==
    /\ stage[c] = "decode"
    /\ rd[c].pc = "fee_variant"
    /\ rd' = [rd EXCEPT ![c] = ReadFeeVariantStep(rd[c])]
    /\ UNCHANGED <<stage, tx, enc, wire, wr, dec, reenc>>

\* let fee = Fee::read_le(&mut reader)?;
ReadFee(c) ==
    /\ stage[c] = "decode"
    /\ rd[c].pc = "fee"
    /\ rd' = [rd EXCEPT ![c] = ReadFeeStep(rd[c])]
    /\ UNCHANGED <<stage, tx, enc, wire, wr, dec, reenc>>

\* let transaction = Self::from_..(..).map_err(|e| error(e.to_string()))?;
Construct(c) ==
    /\ stage[c] = "decode"
    /\ rd[c].pc = "construct"
    /\ rd' = [rd EXCEPT ![c] = ConstructStep(rd[c])]
    /\ UNCHANGED <<stage, tx, enc, wire, wr, dec, reenc>>

\* match transaction.id() == id { true => Ok(transaction), false => Err(..) }
CheckID(c) ==
    /\ stage[c] = "decode"
    /\ rd[c].pc = "check"
    /\ rd' = [rd EXCEPT ![c] = CheckIDStep(rd[c])]
    /\ UNCHANGED <<stage, tx, enc, wire, wr, dec, reenc>>

\* read_le returns Ok(transaction) or the error.
ReadLeReturn(c) ==
    /\ stage[c] = "decode"
    /\ rd[c].pc = "done"
    /\ dec' = [dec EXCEPT ![c] =
                 [result |-> rd[c].result,
                  transaction |-> IF rd[c].result = "Ok" THEN rd[c].transaction ELSE NoTx]]
    /\ stage' = [stage EXCEPT ![c] = "decoded"]
    /\ UNCHANGED <<tx, enc, wire, wr, rd, reenc>>

\* ------------------------------------------------------------------- specs

Codec(c) ==
    \/ UncheckedWriteLe(c)
    \/ WriteLeBegin(c)
    \/ WriteVersion(c)
    \/ WriteVariant(c)
    \/ WriteID(c)
    \/ WriteOwner(c)
    \/ WriteDeployment(c)
    \/ WriteExecution(c)
    \/ WriteFeeVariant(c)
    \/ WriteFee(c)
    \/ EncodeReturn(c)
    \/ ReencodeReturn(c)
    \/ ReadLeBegin(c)
    \/ ReadVersion(c)
    \/ ReadVariant(c)
    \/ ReadID(c)
    \/ ReadOwner(c)
    \/ ReadDeployment(c)
    \/ ReadExecution(c)
    \/ ReadFeeVariant(c)
    \/ ReadFee(c)
    \/ Construct(c)
    \/ CheckID(c)
    \/ ReadLeReturn(c)

\* One thread, every transaction of the three constructors, raw bytes and
\* altered encodings.
Next ==
    \/ FromDeployment(1)
    \/ FromExecution(1)
    \/ FromFee(1)
    \/ FeeLiteral(1)
    \/ RawBytes(1)
    \/ Tamper(1)
    \/ Truncate(1)
    \/ Codec(1)

Spec == Init /\ [][Next]_vars

\* Two threads, each encoding and decoding a sampled transaction of its own,
\* their calls interleaved step by step.
NextPar == \E c \in Threads : Sample(c) \/ Codec(c)

SpecPar == Init /\ [][NextPar]_vars

\* ----------------------------------------------------- the wire format

\* The layout of an encoded transaction: version, tag, identifier, then the
\* fields of the variant.
WireFields(t) ==
    CASE t.variant = 0 -> <<t.owner, t.deployment, t.fee>>
      [] t.variant = 1 -> ExecutionBytes(t.execution) \o
                          (IF t.fee = None THEN <<0>> ELSE <<1, t.fee>>)
      [] OTHER -> <<t.fee>>

WireFormat(t) == <<1, t.variant, t.id>> \o WireFields(t)

EncodedSize(t) == Len(WireFormat(t))

\* The identifier the constructors compute for the fields of t.
ComputedID(t) ==
    CASE t.variant = 0 -> DeploymentID(t.owner, t.deployment, t.fee)
      [] t.variant = 1 -> ExecutionID(t.execution, t.fee)
      [] OTHER -> FeeID(t.fee)

\* t is a value one of the three constructors returns.
Constructible(t) == t # NoTx /\ t.id = ComputedID(t)

\* The bytes handed to read_le are the bytes the encoding produced.
Untampered(c) == wire[c] = enc[c].bytes

\* The bytes handed to read_le differ from a successful encoding in the
\* identifier field (the third byte) alone.
IdTampered(c) ==
    /\ enc[c].result = "Ok"
    /\ Len(wire[c]) = Len(enc[c].bytes)
    /\ \A p \in 1..Len(wire[c]) : (wire[c][p] # enc[c].bytes[p]) <=> (p = 3)

Returned(c) == dec[c].result # "Pending"

\* Where the fee-presence byte of an Execute-tagged stream lies: after the
\* version, the tag, the identifier and the execution (its count byte, the
\* fourth byte, and the transitions).
FeeVariantPos(input) == 5 + input[4]

\* An Execute-tagged stream whose identifier and execution are there to be
\* decoded and whose fee-presence byte is present.
ExecuteStream(input) ==
    /\ Len(input) >= 4
    /\ input[1] = 1
    /\ input[2] = 1
    /\ IdCanonical(input[3])
    /\ Len(input) >= FeeVariantPos(input)

\* --------------------------------------------------------------- claims

\* C1: a transaction built by a constructor whose encoding fits within
\* MAX_TRANSACTION_SIZE is encoded successfully, and read_le of the bytes
\* produced succeeds with a transaction equal to it.
RoundTrip ==
    \A c \in Threads :
        /\ (enc[c].result \in {"Ok", "SizeLimit"} /\ Constructible(tx[c])
              /\ EncodedSize(tx[c]) <= MAX_TRANSACTION_SIZE)
           => enc[c].result = "Ok"
        /\ (Returned(c) /\ enc[c].result = "Ok" /\ Untampered(c) /\ Constructible(tx[c]))
           => dec[c] = [result |-> "Ok", transaction |-> tx[c]]

RoundTripWitness ==
    /\ enc[1].result = "Ok"
    /\ Untampered(1)
    /\ tx[1].variant = 1
    /\ tx[1].fee # None
    /\ Constructible(tx[1])
    /\ dec[1] = [result |-> "Ok", transaction |-> tx[1]]

\* C2 as stated: whenever the identifier field of the encoding of a
\* constructed transaction is altered, read_le fails with the
\* identifier-mismatch error.
IdFlipIsMismatch ==
    \A c \in Threads :
        (Returned(c) /\ IdTampered(c) /\ Constructible(tx[c]))
        => dec[c].result = "IdMismatch"

\* C2, amended: read_le returns a transaction only when the identifier of the
\* constructed transaction equals the identifier read; when they differ it
\* fails with the identifier-mismatch error and returns no transaction; and
\* altering the identifier field of a valid encoding makes read_le fail, with
\* the identifier-mismatch error when the altered bytes still decode as an
\* identifier and with the identifier codec's own error when they do not.
IdentityVerified ==
    \A c \in Threads :
        /\ (rd[c].pc = "done" /\ rd[c].transaction # NoTx)
           => /\ (rd[c].result = "Ok") <=> (rd[c].transaction.id = rd[c].id)
              /\ rd[c].result \in {"Ok", "IdMismatch"}
        /\ dec[c].result = "Ok"
           => /\ dec[c].transaction.id = wire[c][3]
              /\ dec[c].transaction.id = ComputedID(dec[c].transaction)
        /\ (Returned(c) /\ dec[c].result # "Ok") => dec[c].transaction = NoTx
        /\ (Returned(c) /\ IdTampered(c) /\ Constructible(tx[c]))
           => /\ dec[c].result =
                   (IF IdCanonical(wire[c][3]) THEN "IdMismatch" ELSE "InvalidIdentifier")
              /\ dec[c].transaction = NoTx

IdentityVerifiedWitness ==
    /\ IdTampered(1)
    /\ Constructible(tx[1])
    /\ tx[1].variant = 0
    /\ dec[1].result = "IdMismatch"

\* C3: write_le fails with the size-limit error exactly when the encoding
\* (version, tag, identifier and every field, the fee-presence byte included)
\* is longer than MAX_TRANSACTION_SIZE, and never passes more than
\* MAX_TRANSACTION_SIZE bytes on.
EncodeSizeEnforced ==
    \A c \in Threads :
        /\ Len(wr[c].buf) <= MAX_TRANSACTION_SIZE
        /\ wr[c].pc = "done"
           => /\ wr[c].result \in {"Ok", "SizeLimit"}
              /\ (wr[c].result = "SizeLimit")
                 <=> (EncodedSize(wr[c].self) > MAX_TRANSACTION_SIZE)
        /\ enc[c].result \in {"Ok", "SizeLimit"}
           => ((enc[c].result = "SizeLimit") <=> (EncodedSize(tx[c]) > MAX_TRANSACTION_SIZE))

\* The write that crosses the limit is the fee-presence byte: every field
\* before it was written.
EncodeSizeEnforcedWitness ==
    /\ enc[1].result = "SizeLimit"
    /\ tx[1].variant = 1
    /\ tx[1].fee = None
    /\ EncodedSize(tx[1]) = MAX_TRANSACTION_SIZE + 1
    /\ stage[1] = "end"

\* C4: read_le of the bytes unchecked_write_le produced for an over-size
\* transaction fails with the size-limit error, and no read_le call ever
\* consumes more than MAX_TRANSACTION_SIZE bytes.
DecodeSizeEnforced ==
    \A c \in Threads :
        /\ rd[c].pos <= MAX_TRANSACTION_SIZE
        /\ rd[c].remaining >= 0
        /\ (rd[c].pc = "done" /\ enc[c].result = "Unchecked" /\ rd[c].input = enc[c].bytes
              /\ Constructible(tx[c]) /\ Len(rd[c].input) > MAX_TRANSACTION_SIZE)
           => rd[c].result = "SizeLimit"

DecodeSizeEnforcedWitness ==
    /\ enc[1].result = "Unchecked"
    /\ Untampered(1)
    /\ Len(wire[1]) > MAX_TRANSACTION_SIZE
    /\ tx[1].variant = 1
    /\ dec[1].result = "SizeLimit"
    /\ rd[1].pc = "done"
    /\ rd[1].input = wire[1]

\* C5: when the first byte of the input is not 1, read_le fails with the
\* invalid-version error after reading that byte alone.
VersionRejected ==
    \A c \in Threads :
        (rd[c].pc # "idle" /\ Len(rd[c].input) >= 1 /\ rd[c].input[1] # 1)
        => /\ rd[c].pc \in {"version", "done"}
           /\ rd[c].pc = "done"
              => /\ rd[c].result = "InvalidVersion"
                 /\ rd[c].pos = 1
                 /\ rd[c].variant = None
                 /\ rd[c].id = None

VersionRejectedWitness ==
    /\ Len(wire[1]) > 3
    /\ wire[1][1] = 0
    /\ dec[1].result = "InvalidVersion"

\* C6: with a valid version byte, a tag byte of 3 or more makes read_le fail
\* with the invalid-variant error whatever follows; the field sequences are
\* entered with tag 0 (Deploy), 1 (Execute) or 2 (Fee) only.
VariantRejected ==
    \A c \in Threads :
        /\ (rd[c].pc # "idle" /\ Len(rd[c].input) >= 2 /\ rd[c].input[1] = 1
              /\ rd[c].input[2] >= 3)
           => /\ rd[c].pc \in {"version", "variant", "done"}
              /\ rd[c].pc = "done"
                 => /\ rd[c].result = "InvalidVariant"
                    /\ rd[c].pos = 2
                    /\ rd[c].id = None
        /\ rd[c].pc \in {"owner", "deployment"} => rd[c].variant = 0
        /\ rd[c].pc \in {"execution", "fee_variant"} => rd[c].variant = 1
        /\ rd[c].pc \in {"id", "fee", "construct", "check"}
           => /\ rd[c].variant \in {0, 1, 2}
              /\ rd[c].variant = rd[c].input[2]
        /\ rd[c].transaction # NoTx => rd[c].transaction.variant = rd[c].input[2]

VariantRejectedWitness ==
    /\ Len(wire[1]) > 3
    /\ wire[1][1] = 1
    /\ wire[1][2] = 3
    /\ dec[1].result = "InvalidVariant"

\* C7 as stated: in an Execute-tagged stream whose identifier and execution
\* decode, a fee-presence byte outside {0, 1} makes read_le fail with the
\* invalid-fee-variant error.
FeeVariantAlwaysRejected ==
    \A c \in Threads :
        (rd[c].pc = "done" /\ ExecuteStream(rd[c].input)
           /\ FeeVariantPos(rd[c].input) - 1 <= MAX_TRANSACTION_SIZE
           /\ rd[c].input[FeeVariantPos(rd[c].input)] \notin {0, 1})
        => rd[c].result = "InvalidFeeVariant"

\* C7, amended: the fee-presence byte decides when it lies within the first
\* MAX_TRANSACTION_SIZE bytes of the stream: outside {0, 1} it makes read_le
\* fail with the invalid-fee-variant error, 0 leaves the fee absent and reads
\* nothing more, 1 has the fee read next.  A fee-presence byte beyond the
\* first MAX_TRANSACTION_SIZE bytes is not read: read_le fails with the
\* size-limit error.
FeeVariantRejected ==
    \A c \in Threads :
        LET input == rd[c].input
            p     == FeeVariantPos(input)
        IN  (rd[c].pc \in {"fee", "construct", "check", "done"} /\ ExecuteStream(input))
            => /\ (p <= MAX_TRANSACTION_SIZE /\ input[p] \notin {0, 1})
                  => /\ rd[c].pc = "done"
                     /\ rd[c].result = "InvalidFeeVariant"
                     /\ rd[c].pos = p
               /\ (p <= MAX_TRANSACTION_SIZE /\ input[p] = 0)
                  => /\ rd[c].pc # "fee"
                     /\ rd[c].fee = None
                     /\ rd[c].pos = p
                     /\ rd[c].result \in {"Pending", "Ok", "IdMismatch"}
                     /\ rd[c].transaction # NoTx => rd[c].transaction.fee = None
               /\ (p <= MAX_TRANSACTION_SIZE /\ input[p] = 1)
                  => /\ rd[c].pc = "fee" => (rd[c].pos = p /\ rd[c].fee = None)
                     /\ rd[c].pc \in {"construct", "check"}
                        => (rd[c].pos = p + 1 /\ rd[c].fee = input[p + 1])
                     /\ rd[c].result = "Ok" => rd[c].transaction.fee = input[p + 1]
                     /\ (rd[c].pc = "done" /\ rd[c].pos = p)
                        => rd[c].result \in {"Eof", "SizeLimit"}
               /\ p > MAX_TRANSACTION_SIZE
                  => /\ rd[c].pc = "done"
                     /\ rd[c].result = "SizeLimit"

FeeVariantRejectedWitness ==
    /\ ExecuteStream(wire[1])
    /\ FeeVariantPos(wire[1]) < MAX_TRANSACTION_SIZE
    /\ wire[1][FeeVariantPos(wire[1])] = 2
    /\ Len(wire[1]) > FeeVariantPos(wire[1])
    /\ dec[1].result = "InvalidFeeVariant"

\* C8: encoding the transaction decoded from the encoding of a constructed
\* transaction gives the same bytes again; an encoding starts with version 1
\* and the tag of the variant and carries no padding; and whatever bytes
\* read_le accepts, the bytes it consumed are the encoding of what it
\* returned.
CanonicalForm ==
    \A c \in Threads :
        /\ (reenc[c].result # "Pending" /\ enc[c].result = "Ok" /\ Untampered(c)
              /\ Constructible(tx[c]))
           => reenc[c] = [result |-> "Ok", bytes |-> enc[c].bytes]
        /\ enc[c].result = "Ok"
           => /\ enc[c].bytes[1] = 1
              /\ enc[c].bytes[2] = tx[c].variant
              /\ Len(enc[c].bytes) = EncodedSize(tx[c])
        /\ reenc[c].result # "Pending"
           => reenc[c] = [result |-> "Ok", bytes |-> SubSeq(wire[c], 1, rd[c].pos)]

CanonicalFormWitness ==
    /\ enc[1].result = "Ok"
    /\ Untampered(1)
    /\ Constructible(tx[1])
    /\ tx[1].variant = 0
    /\ reenc[1] = [result |-> "Ok", bytes |-> enc[1].bytes]

\* C9: write_le emits version 1, the tag, the stored identifier and the fields
\* of the variant in the order of the wire format, the Execute fee-presence
\* byte being 0 for an absent fee and 1 followed by the fee otherwise; read_le
\* reads the fields of each variant from the same places.
WireOrder ==
    \A c \in Threads :
        /\ wr[c].pc # "idle"
           => /\ wr[c].buf = SubSeq(WireFormat(wr[c].self), 1, Len(wr[c].buf))
              /\ wr[c].result = "Ok" => wr[c].buf = WireFormat(wr[c].self)
        /\ enc[c].result = "Ok" => enc[c].bytes = WireFormat(tx[c])
        /\ (enc[c].result = "Ok" /\ tx[c].variant = 1)
           => enc[c].bytes[4 + Len(tx[c].execution) + 1] = (IF tx[c].fee = None THEN 0 ELSE 1)
        /\ rd[c].transaction # NoTx
           => LET input == rd[c].input
                  t     == rd[c].transaction
              IN  /\ rd[c].id = input[3]
                  /\ t.variant = 0
                     => (t.owner = input[4] /\ t.deployment = input[5] /\ t.fee = input[6])
                  /\ t.variant = 1
                     => /\ t.execution = SubSeq(input, 5, 4 + input[4])
                        /\ t.fee = (IF input[FeeVariantPos(input)] = 0 THEN None
                                    ELSE input[FeeVariantPos(input) + 1])
                  /\ t.variant = 2 => t.fee = input[4]
                  /\ rd[c].pos = EncodedSize(t)

\* An Execute transaction without a fee: the byte after the execution is 0,
\* and the decoded transaction has no fee.
WireOrderWitness ==
    /\ enc[1].result = "Ok"
    /\ Untampered(1)
    /\ tx[1].variant = 1
    /\ tx[1].fee = None
    /\ Len(tx[1].execution) = 2
    /\ wire[1][7] = 0
    /\ Len(wire[1]) = 7
    /\ dec[1].result = "Ok"
    /\ dec[1].transaction.fee = None

\* C10: every call starts with a byte budget of its own: whatever the calls of
\* the other thread and the earlier calls of the same thread did, a call
\* counts only its own bytes, an encoding of at most MAX_TRANSACTION_SIZE
\* bytes is written and read back successfully, and a longer one fails.
IndependentBudgets ==
    \A c \in Threads :
        /\ (wr[c].pc # "idle" /\ wr[c].result # "SizeLimit")
           => wr[c].remaining + Len(wr[c].buf) = MAX_TRANSACTION_SIZE
        /\ rd[c].pc # "idle" => rd[c].remaining + rd[c].pos = MAX_TRANSACTION_SIZE
        /\ enc[c].result \in {"Ok", "SizeLimit"}
           => enc[c] = (IF EncodedSize(tx[c]) <= MAX_TRANSACTION_SIZE
                        THEN [result |-> "Ok", bytes |-> WireFormat(tx[c])]
                        ELSE [result |-> "SizeLimit", bytes |-> <<>>])
        /\ (Returned(c) /\ enc[c].result = "Ok")
           => dec[c] = [result |-> "Ok", transaction |-> tx[c]]
        /\ (Returned(c) /\ enc[c].result = "Unchecked")
           => dec[c] = (IF EncodedSize(tx[c]) <= MAX_TRANSACTION_SIZE
                        THEN [result |-> "Ok", transaction |-> tx[c]]
                        ELSE [result |-> "SizeLimit", transaction |-> NoTx])
        /\ reenc[c].result # "Pending"
           => reenc[c] = [result |-> "Ok", bytes |-> WireFormat(tx[c])]

\* One thread's write_le hit the size limit, and the calls of the other thread,
\* on a transaction of exactly MAX_TRANSACTION_SIZE bytes, all succeeded.
IndependentBudgetsWitness ==
    /\ enc[1].result = "SizeLimit"
    /\ stage[1] = "end"
    /\ enc[2].result = "Ok"
    /\ EncodedSize(tx[2]) = MAX_TRANSACTION_SIZE
    /\ dec[2] = [result |-> "Ok", transaction |-> tx[2]]
    /\ reenc[2] = [result |-> "Ok", bytes |-> enc[2].bytes]

====
